---- MODULE Spec2Model ----
(***************************************************************************)
(* A model of the textual LLVM-IR feature extractor                        *)
(* (src/feature_extractor2.py, and process_directory of                    *)
(* src/feature_extractor.py).                                              *)
(*                                                                         *)
(* Text is a sequence of tokens; a token is a sequence of atoms (strings). *)
(* Punctuation atoms are single characters, every other atom is a run of   *)
(* word characters, so that the regular expressions of the source are      *)
(* evaluated on tokens the way Python's re evaluates them on characters:   *)
(* greedy and lazy quantifiers, look-ahead, \b and prefix matches keep     *)
(* their meaning.                                                          *)
(***************************************************************************)
EXTENDS Integers, Sequences, FiniteSets, TLC

VARIABLES
    variant,        \* which process_directory runs: "fe" or "fe2"
    pc,             \* position of the running operation
    raised,         \* TRUE once the operation has raised an exception
    result,         \* value returned by the operation under study
    ir_content,     \* IRFeatureExtractor.ir_content: the module text
    functions,      \* IRFeatureExtractor.functions: ordered name -> text
    rows,           \* the rows extract_all_features has appended so far
    function_text,  \* argument of _calculate_caller_height / _get_loop_body
    loop_header,    \* argument of _get_loop_body
    current_func,   \* _calculate_caller_height: current_func
    visited,        \* _calculate_caller_height: visited
    height,         \* _calculate_caller_height: height
    lookups,        \* number of _find_caller calls of this traversal
    start_idx,      \* _get_loop_body: start_idx (1-based; 0 is Python's -1)
    end_idx,        \* _get_loop_body: end_idx (1-based)
    brace_count,    \* _get_loop_body: brace_count
    listing,        \* process_directory: what os.listdir returns
    files,          \* process_directory: files, the .ll entries of the listing
    all_features,   \* process_directory: all_features
    attempted,      \* process_directory: the files the loop has attempted
    loop_headers,   \* get_loop_features: loop_headers
    loop_i,         \* get_loop_features: headers the for loop has done
    loop_depths,    \* get_loop_features: loop_depths
    total_instructions,     \* get_loop_features: total_instructions
    multiple_succ_blocks,   \* get_loop_features: multiple_succ_blocks
    callsites_in_loop,      \* get_loop_features: callsites_in_loop
    loop_body,      \* get_loop_features: loop_body of the last header done
    module_functions,   \* feature_extractor.py: self.module.functions
    empty_is_falsy, \* feature_extractor.py: whether 'not function.blocks' is
                    \* True for a function without blocks
    features,       \* extract_file_features: features
    function_count, \* extract_file_features: function_count
    fn_i            \* extract_file_features: functions the loop has done

moduleVars == <<ir_content, functions, rows>>
heightVars == <<current_func, visited, height, lookups>>
scanVars == <<loop_header, start_idx, end_idx, brace_count>>
dirVars == <<variant, listing, files, all_features, attempted>>
loopVars == <<loop_headers, loop_i, loop_depths, total_instructions,
              multiple_succ_blocks, callsites_in_loop, loop_body>>
fileVars == <<module_functions, empty_is_falsy, features, function_count, fn_i>>

vars == <<pc, raised, result, function_text, moduleVars, heightVars, scanVars,
          dirVars,
          loopVars, fileVars>>

----------------------------------------------------------------------------
(* Bounds of the model *)

\* lines in the body of a generated single-function module
MaxLines == 2
\* functions in a generated multi-function module / function mapping
MaxFuncs == 3
\* tokens of a generated brace text (after the anchor line)
MaxBraceLen == 4
\* files in a directory listing
MaxFiles == 3
\* rows one file contributes
MaxRows == 1

----------------------------------------------------------------------------
(* Tokens *)

NL == <<"\n">>
SP == <<" ">>
DEFKW == <<"define">>
LB == <<"{">>
RB == <<"}">>
CALL == <<"call">>
PCALL == <<"%", "call">>
BR == <<"br">>
I1 == <<"i1">>
LABELKW == <<"label">>
RET == <<"ret">>
XI == <<"x">>
SEMI == <<";">>
INTERNAL == <<"internal">>
ENTRY == <<"entry", ":">>
LOOP == <<"loop", ":">>
PROF == <<"!", "prof">>

Punct == {"@", "%", "{", "}", "\n", " ", ":", ";", "!", "."}

Digits == {"0", "3", "7"}

IsWordAtom(a) == a \notin Punct

IsSpace(t) == t = NL \/ t = SP

\* the symbol reference @name
Sym(n) == <<"@">> \o n

\* a metadata reference !<digits>
MD(d) == <<"!", d>>

\* a profile count annotation count:<digits>
COUNT(d) == <<"count", ":", d>>

NameA == <<"A">>
NameB == <<"B">>
NameBb == <<"B", "b">>
Names == {NameA, NameB, NameBb}

Unknown == <<"unknown">>

\* int(): the value of a matched \d+
DigitVal(d) == CASE d = "0" -> 0 [] d = "3" -> 3 [] d = "7" -> 7

----------------------------------------------------------------------------
(* Sequence helpers *)

RECURSIVE Flatten(_)
Flatten(ss) == IF ss = <<>> THEN <<>> ELSE Head(ss) \o Flatten(Tail(ss))

Min(S) == CHOOSE x \in S : \A y \in S : x <= y
Max(S) == CHOOSE x \in S : \A y \in S : x >= y

\* text[i..j], empty when j < i
Slice(t, i, j) == IF j < i THEN <<>> ELSE SubSeq(t, i, j)

\* seqs of length <= n over S
SeqsUpTo(S, n) == UNION {[1..k -> S] : k \in 0..n}

\* indices at which the token sequence sub occurs in t
Occurrences(t, sub) ==
    {i \in 1..(Len(t) - Len(sub) + 1) : SubSeq(t, i, i + Len(sub) - 1) = sub}

\* str.find: first occurrence, 1-based; 0 stands for Python's -1
Find(t, sub) ==
    IF Occurrences(t, sub) = {} THEN 0 ELSE Min(Occurrences(t, sub))

\* end index of the line that holds position i (the index of its "\n", or
\* Len(t) when the last line is not terminated)
LineEnd(t, i) ==
    IF \E k \in i..Len(t) : t[k] = NL
    THEN Min({k \in i..Len(t) : t[k] = NL})
    ELSE Len(t)

\* number of elements of a sequence that satisfy a membership
CountIn(t, S) == Cardinality({i \in 1..Len(t) : t[i] \in S})

----------------------------------------------------------------------------
(* _get_function_name and _split_into_functions *)

\* '@([\w.]+)' matches in token tok: an "@" followed by a word atom
IsSymTok(tok) == Len(tok) >= 2 /\ tok[1] = "@" /\ IsWordAtom(tok[2])

\* the name captured by '@([\w.]+)' in a symbol token
SymName(tok) == Tail(tok)

_get_function_name(text) ==
    IF \E i \in 1..Len(text) : IsSymTok(text[i])
    THEN SymName(text[Min({i \in 1..Len(text) : IsSymTok(text[i])})])
    ELSE Unknown

\* the look-ahead (?=\n\s*(?:define|\Z)) at the position after index k
LookaheadOK(t, k) ==
    /\ k + 1 <= Len(t)
    /\ t[k + 1] = NL
    /\ LET rest == {m \in (k + 2)..Len(t) : ~IsSpace(t[m])}
       IN  rest = {} \/ t[Min(rest)] = DEFKW

\* '{.*?}(?=...)' from an opening brace at j: the lazy '.*?' stops at the
\* first '}' after j that the look-ahead accepts; 0 when there is none
LazyClose(t, j) ==
    LET ks == {k \in (j + 1)..Len(t) : t[k] = RB /\ LookaheadOK(t, k)}
    IN  IF ks = {} THEN 0 ELSE Min(ks)

\* 'define.*{' from a 'define' at i, with re.DOTALL: the greedy '.*' runs to
\* the end of the text and backs off to the LAST '{' from which the rest of
\* the pattern matches; 0 when there is none
GreedyOpen(t, i) ==
    LET js == {j \in (i + 1)..Len(t) : t[j] = LB /\ LazyClose(t, j) # 0}
    IN  IF js = {} THEN 0 ELSE Max(js)

\* the end of the match of function_pattern that starts at i, or 0
MatchEnd(t, i) ==
    IF t[i] = DEFKW /\ GreedyOpen(t, i) # 0
    THEN LazyClose(t, GreedyOpen(t, i))
    ELSE 0

\* re.finditer: the non-overlapping matches, left to right, from pos on
RECURSIVE FindIter(_, _)
FindIter(t, pos) ==
    LET starts == {i \in pos..Len(t) : MatchEnd(t, i) # 0}
    IN  IF starts = {} THEN <<>>
        ELSE LET i == Min(starts)
             IN  <<SubSeq(t, i, MatchEnd(t, i))>> \o FindIter(t, MatchEnd(t, i) + 1)

\* dict[name] = text on an insertion-ordered dict
DictPut(d, name, text) ==
    IF \E i \in 1..Len(d) : d[i].name = name
    THEN [i \in 1..Len(d) |->
            IF d[i].name = name THEN [name |-> name, text |-> text] ELSE d[i]]
    ELSE Append(d, [name |-> name, text |-> text])

RECURSIVE DictOf(_, _)
DictOf(groups, d) ==
    IF groups = <<>> THEN d
    ELSE DictOf(Tail(groups),
                DictPut(d, _get_function_name(Head(groups)), Head(groups)))

_split_into_functions(content) == DictOf(FindIter(content, 1), <<>>)

----------------------------------------------------------------------------
(* Regular-expression helpers shared by the feature functions *)

\* \bw\b matches inside token tok: atom w with no word atom beside it
HasWord(tok, w) ==
    \E i \in 1..Len(tok) :
        /\ tok[i] = w
        /\ (i = 1 \/ ~IsWordAtom(tok[i - 1]))
        /\ (i = Len(tok) \/ ~IsWordAtom(tok[i + 1]))

\* len(re.findall(r'\bw\b', text))
CountWord(text, w) == Cardinality({i \in 1..Len(text) : HasWord(text[i], w)})

\* the literal w (no \b) matches at the end of token tok
EndsWith(tok, w) == Len(tok) >= 1 /\ tok[Len(tok)] = w

\* last index of the run of white-space tokens that starts after index i
\* (i itself when no white space follows)
SpaceRunEnd(t, i) ==
    LET stops == {m \in (i + 1)..Len(t) : ~IsSpace(t[m])}
    IN  IF stops = {} THEN Len(t) ELSE Min(stops) - 1

\* '[\w.]+:' matches at the start of token tok; the number of atoms matched
\* (0 when it does not match)
LabelLen(tok) ==
    LET ks == {k \in 2..Len(tok) :
                  /\ tok[k] = ":"
                  /\ \A m \in 1..(k - 1) : IsWordAtom(tok[m]) \/ tok[m] = "."}
    IN  IF ks = {} THEN 0 ELSE Min(ks)

\* str.strip() on a token sequence
RECURSIVE Strip(_)
Strip(t) ==
    IF t = <<>> THEN t
    ELSE IF IsSpace(t[1]) THEN Strip(Tail(t))
    ELSE IF IsSpace(t[Len(t)]) THEN Strip(SubSeq(t, 1, Len(t) - 1))
    ELSE t

\* end of the match of r'\n\s*[\w.]+:' that starts at the "\n" at i, or 0
LabelMatchEnd(t, i) ==
    IF t[i] = NL /\ SpaceRunEnd(t, i) < Len(t)
                 /\ LabelLen(t[SpaceRunEnd(t, i) + 1]) # 0
    THEN SpaceRunEnd(t, i) + 1
    ELSE 0

\* what is left of a label token once '[\w.]+:' has been consumed
LabelRest(tok) ==
    IF LabelLen(tok) < Len(tok)
    THEN <<SubSeq(tok, LabelLen(tok) + 1, Len(tok))>>
    ELSE <<>>

\* re.split(r'\n\s*[\w.]+:', text): the pieces between the matches
RECURSIVE SplitLabels(_)
SplitLabels(t) ==
    LET starts == {i \in 1..Len(t) : LabelMatchEnd(t, i) # 0}
    IN  IF starts = {} THEN <<t>>
        ELSE LET i == Min(starts)
                 e == LabelMatchEnd(t, i)
             IN  <<Slice(t, 1, i - 1)>>
                 \o SplitLabels(LabelRest(t[e]) \o Slice(t, e + 1, Len(t)))

SelectNonEmpty(ss) == SelectSeq(ss, LAMBDA b : b # <<>>)

\* _get_basic_blocks: drop the piece before the first label, strip, keep the
\* non-empty ones
_get_basic_blocks(text) ==
    LET pieces == Tail(SplitLabels(text))
    IN  SelectNonEmpty([i \in 1..Len(pieces) |-> Strip(pieces[i])])

\* first atom of a token
FirstAtom(tok) == tok[1]

\* end of the match of r'\n\s+[^;}]' that starts at the "\n" at i, or 0:
\* the greedy \s+ takes the whole white-space run and [^;}] the first
\* character of the next token; when that character is ';' or '}' (or the
\* text ends) \s+ gives one white-space character back to [^;}]
InstrMatchEnd(t, i) ==
    LET r == SpaceRunEnd(t, i)
    IN  IF t[i] # NL \/ r = i THEN 0
        ELSE IF r < Len(t) /\ FirstAtom(t[r + 1]) \notin {";", "}"} THEN r + 1
        ELSE IF r >= i + 2 THEN r
        ELSE 0

\* len(re.findall(r'\n\s+[^;}]', text))
RECURSIVE CountInstr(_, _)
CountInstr(t, pos) ==
    LET starts == {i \in pos..Len(t) : InstrMatchEnd(t, i) # 0}
    IN  IF starts = {} THEN 0
        ELSE 1 + CountInstr(t, InstrMatchEnd(t, Min(starts)) + 1)

\* len(re.findall(r'br\s+(?:<one of firsts>)', text))
CountBr(t, firsts) ==
    Cardinality({i \in 1..Len(t) :
        /\ EndsWith(t[i], "br")
        /\ SpaceRunEnd(t, i) > i
        /\ SpaceRunEnd(t, i) < Len(t)
        /\ FirstAtom(t[SpaceRunEnd(t, i) + 1]) \in firsts})

RECURSIVE SumSeq(_)
SumSeq(s) == IF s = <<>> THEN 0 ELSE Head(s) + SumSeq(Tail(s))

\* the Python quotient n / d of two ints (a float), kept exact
Ratio(n, d) == [num |-> n, den |-> d]

\* the int 0 returned in place of a quotient
Zero == Ratio(0, 1)

get_instruction_per_block(text) ==
    LET blocks == _get_basic_blocks(text)
    IN  IF blocks = <<>> THEN Zero
        ELSE Ratio(SumSeq([i \in 1..Len(blocks) |-> CountInstr(blocks[i], 1)]),
                   Len(blocks))

get_successor_per_block(text) ==
    LET blocks == _get_basic_blocks(text)
    IN  IF blocks = <<>> THEN Zero
        ELSE Ratio(SumSeq([i \in 1..Len(blocks) |->
                              CountBr(blocks[i], {"label", "i1"})]),
                   Len(blocks))

get_calls_no(text) == CountWord(text, "call")

is_local(text) ==
    IF \E i \in 1..LineEnd(text, 1) : \E k \in 1..Len(text[i]) : text[i][k] = "internal"
    THEN 1 ELSE 0

count_specific_instructions(text, instruction) == CountWord(text, instruction)

----------------------------------------------------------------------------
(* Loop Region Locator: get_loop_features and _get_loop_body *)

\* 'loop:' matches in token tok
IsLoopTok(tok) ==
    \E i \in 1..(Len(tok) - 1) : tok[i] = "loop" /\ tok[i + 1] = ":"

\* re.findall(r'loop:.*\n', text): each match runs from a 'loop:' to the
\* "\n" that ends its line; the search resumes after that "\n"
RECURSIVE LoopHeaders(_, _)
LoopHeaders(t, pos) ==
    LET starts == {i \in pos..Len(t) :
                      IsLoopTok(t[i]) /\ \E k \in i..Len(t) : t[k] = NL}
    IN  IF starts = {} THEN <<>>
        ELSE LET i == Min(starts)
             IN  <<SubSeq(t, i, LineEnd(t, i))>> \o LoopHeaders(t, LineEnd(t, i) + 1)

\* the offsets (1-based) of the matches of r'loop:.*\n', in order
RECURSIVE LoopOffsets(_, _)
LoopOffsets(t, pos) ==
    LET starts == {i \in pos..Len(t) :
                      IsLoopTok(t[i]) /\ \E k \in i..Len(t) : t[k] = NL}
    IN  IF starts = {} THEN <<>>
        ELSE <<Min(starts)>> \o LoopOffsets(t, LineEnd(t, Min(starts)) + 1)

\* the guard without the end-of-text test
ScanGuard_NoEndTest(text, bc, e) == bc > 0

\* the guard of the while loop of _get_loop_body (end_idx is 1-based here)
ScanGuard(text, bc, e) == bc > 0 /\ e < Len(text)

\* the count that forgets to open nested braces
ScanCount_NoNesting(text, bc, e) == IF text[e] = RB THEN bc - 1 ELSE bc

\* brace_count after the loop body has looked at text[e]
ScanCount(text, bc, e) ==
    IF text[e] = LB THEN bc + 1
    ELSE IF text[e] = RB THEN bc - 1
    ELSE bc

\* end_idx when the while loop is left
RECURSIVE ScanEnd(_, _, _)
ScanEnd(text, bc, e) ==
    IF ScanGuard(text, bc, e)
    THEN ScanEnd(text, ScanCount(text, bc, e + 1), e + 1)
    ELSE e

\* brace_count when the while loop is left
RECURSIVE ScanFinalCount(_, _, _)
ScanFinalCount(text, bc, e) ==
    IF ScanGuard(text, bc, e)
    THEN ScanFinalCount(text, ScanCount(text, bc, e + 1), e + 1)
    ELSE bc

\* start_idx = function_text.find(loop_header)
ScanStartIdx(header, text) == Find(text, header)

_get_loop_body(header, text) ==
    IF ScanStartIdx(header, text) = 0 THEN <<>>
    ELSE SubSeq(text, ScanStartIdx(header, text),
                ScanEnd(text, 1, ScanStartIdx(header, text)))

LoopFeatureKeys ==
    {"avg_nested_loop_level", "instr_per_loop",
     "block_with_multiple_succ_per_loop", "max_loop_depth",
     "num_callsite_in_loop"}

\* the no-loop dictionary with one key forgotten
NoLoopFeatures_KeyForgotten ==
    [avg_nested_loop_level |-> Zero,
     instr_per_loop |-> Zero,
     block_with_multiple_succ_per_loop |-> Zero,
     max_loop_depth |-> 0]

\* the dictionary returned when there is no loop header
NoLoopFeatures ==
    [avg_nested_loop_level |-> Zero,
     instr_per_loop |-> Zero,
     block_with_multiple_succ_per_loop |-> Zero,
     max_loop_depth |-> 0,
     num_callsite_in_loop |-> 0]

\* depth = len(re.findall(r'loop:', loop))
LoopDepth(header) == Cardinality({i \in 1..Len(header) : IsLoopTok(header[i])})

\* len(re.findall(r'\bcall\b', loop_body))
CallsitesIn(body) == CountWord(body, "call")

get_loop_features(text) ==
    LET hs == LoopHeaders(text, 1)
        n == Len(hs)
        bodies == [i \in 1..n |-> _get_loop_body(hs[i], text)]
    IN  IF hs = <<>> THEN NoLoopFeatures
        ELSE [avg_nested_loop_level |->
                 Ratio(SumSeq([i \in 1..n |-> LoopDepth(hs[i])]), n),
              instr_per_loop |->
                 Ratio(SumSeq([i \in 1..n |-> CountInstr(bodies[i], 1)]), n),
              block_with_multiple_succ_per_loop |->
                 Ratio(SumSeq([i \in 1..n |-> CountBr(bodies[i], {"i1"})]), n),
              max_loop_depth |-> Max({LoopDepth(hs[i]) : i \in 1..n}),
              num_callsite_in_loop |->
                 SumSeq([i \in 1..n |-> CallsitesIn(bodies[i])])]

----------------------------------------------------------------------------
(* Call Graph Analyzer *)

IsPrefix(a, b) == Len(a) <= Len(b) /\ SubSeq(b, 1, Len(a)) = a

\* the literal 'call' matches inside token tok
HasCallAtom(tok) == \E i \in 1..Len(tok) : tok[i] = "call"

\* indices of the symbol tokens of the line that holds position i, from i on
SymsOnLine(t, i) == {m \in i..LineEnd(t, i) : IsSymTok(t[m])}

\* index of the symbol captured by r'call\s+.*@([\w.]+)' when 'call' is
\* matched at the end of token i, or 0: \s+ takes the white-space run, the
\* greedy '.*' stays on one line and backs off to the LAST '@' of that line
CallMatchSym(t, i) ==
    LET r == SpaceRunEnd(t, i)
    IN  IF EndsWith(t[i], "call") /\ r > i /\ r < Len(t)
           /\ SymsOnLine(t, r + 1) # {}
        THEN Max(SymsOnLine(t, r + 1))
        ELSE 0

\* calls = re.findall(r'call\s+.*@([\w.]+)', function_text)
RECURSIVE CallsFrom(_, _)
CallsFrom(t, pos) ==
    LET starts == {i \in pos..Len(t) : CallMatchSym(t, i) # 0}
    IN  IF starts = {} THEN <<>>
        ELSE LET m == CallMatchSym(t, Min(starts))
             IN  <<SymName(t[m])>> \o CallsFrom(t, m + 1)

Calls(text) == CallsFrom(text, 1)

InSeq(x, s) == \E i \in 1..Len(s) : s[i] = x

IsMD(tok) == Len(tok) = 2 /\ tok[1] = "!" /\ tok[2] \in Digits

IsCount(tok) == Len(tok) = 3 /\ tok[1] = "count" /\ tok[2] = ":" /\ tok[3] \in Digits

\* '!prof ![\d]+' matches at index i
ProfAt(t, i) ==
    /\ i + 2 <= Len(t)
    /\ t[i] = PROF /\ t[i + 1] = SP /\ IsMD(t[i + 2])

\* re.search(r'!prof ![\d]+.*![\d]+', text) and, inside the match,
\* re.search(r'count:(\d+)', ...): the entry frequency, 0 by default
EntryFreq(t) ==
    LET ends(i) == {m \in (i + 3)..LineEnd(t, i) : IsMD(t[m])}
        starts == {i \in 1..Len(t) : ProfAt(t, i) /\ ends(i) # {}}
    IN  IF starts = {} THEN 0
        ELSE LET i == Min(starts)
                 cs == {c \in i..Max(ends(i)) : IsCount(t[c])}
             IN  IF cs = {} THEN 0 ELSE DigitVal(t[Min(cs)][3])

\* re.search(r'!prof ![\d]+.*count:(\d+)', block): the greedy '.*' backs off
\* to the last 'count:' of the line; -1 stands for "no match"
BlockFreq(t) ==
    LET cnts(i) == {c \in (i + 3)..LineEnd(t, i) : IsCount(t[c])}
        starts == {i \in 1..Len(t) : ProfAt(t, i) /\ cnts(i) # {}}
    IN  IF starts = {} THEN -1
        ELSE DigitVal(t[Max(cnts(Min(starts)))][3])

\* max(block_freqs) if block_freqs else 0
MaxCallsiteFreq(text) ==
    LET blocks == _get_basic_blocks(text)
        fs == {BlockFreq(blocks[i]) : i \in 1..Len(blocks)} \ {-1}
    IN  IF fs = {} THEN 0 ELSE Max(fs)

\* re.search(f'call.*@{function_name}', func): a 'call', and after it on the
\* same line an '@' followed by the characters of function_name
CallsName(func, name) ==
    \E i \in 1..Len(func) :
        /\ HasCallAtom(func[i])
        /\ \E m \in (i + 1)..LineEnd(func, i) :
              IsSymTok(func[m]) /\ IsPrefix(name, SymName(func[m]))

\* _find_caller: the first function, in the order of the mapping, whose text
\* matches; <<>> stands for None
_find_caller(funcs, text) ==
    LET name == _get_function_name(text)
        hits == {i \in 1..Len(funcs) : CallsName(funcs[i].text, name)}
    IN  IF hits = {} THEN <<>> ELSE funcs[Min(hits)].text

\* the break condition without the visited test
HeightBreak_NoVisited(funcs, cur, vis) == _find_caller(funcs, cur) = <<>>

\* the break condition of the while loop of _calculate_caller_height
HeightBreak(funcs, cur, vis) ==
    \/ _find_caller(funcs, cur) = <<>>
    \/ _get_function_name(_find_caller(funcs, cur)) \in vis

\* the while loop of _calculate_caller_height from (current_func, visited,
\* height) on
RECURSIVE HeightLoop(_, _, _, _)
HeightLoop(funcs, cur, vis, h) ==
    IF HeightBreak(funcs, cur, vis) THEN h
    ELSE HeightLoop(funcs, _find_caller(funcs, cur),
                    vis \cup {_get_function_name(cur)}, h + 1)

_calculate_caller_height(funcs, text) == HeightLoop(funcs, text, {}, 0)

is_recursive(text) == IF InSeq(_get_function_name(text), Calls(text)) THEN 1 ELSE 0

get_call_graph_features(funcs, text) ==
    [caller_height |-> _calculate_caller_height(funcs, text),
     call_usage |-> Len(Calls(text)),
     is_recursive |-> is_recursive(text),
     entry_block_freq |-> EntryFreq(text),
     max_callsite_block_freq |-> MaxCallsiteFreq(text)]

\* the row extract_all_features appends for one entry of self.functions
FeatureRow(funcs, name, text) ==
    [function_name |-> name,
     instruction_per_block |-> get_instruction_per_block(text),
     successor_per_block |-> get_successor_per_block(text),
     calls_no |-> get_calls_no(text),
     is_local |-> is_local(text),
     ret_count |-> count_specific_instructions(text, "ret"),
     fmul_count |-> count_specific_instructions(text, "fmul"),
     fdiv_count |-> count_specific_instructions(text, "fdiv"),
     fadd_count |-> count_specific_instructions(text, "fadd"),
     fsub_count |-> count_specific_instructions(text, "fsub")]
    @@ get_loop_features(text)
    @@ get_call_graph_features(funcs, text)

----------------------------------------------------------------------------
(* Input texts *)

Indent == <<SP, SP>>

LEntry == <<ENTRY, NL>>
LInstr == Indent \o <<XI, NL>>
LRet == Indent \o <<RET, NL>>
LCall(n) == Indent \o <<CALL, SP, Sym(n), NL>>
\* call @n(ptr @m)
LCallArg(n, m) == Indent \o <<CALL, SP, Sym(n), SP, Sym(m), NL>>
\* %call = call @n()
LPCall(n) == Indent \o <<PCALL, SP, CALL, SP, Sym(n), NL>>
LBrI1 == Indent \o <<BR, SP, I1, NL>>
LBrLabel == Indent \o <<BR, SP, LABELKW, NL>>
LLoop == <<LOOP, NL>>
LComment == Indent \o <<SEMI, XI, NL>>
LProf(d) == Indent \o <<XI, SP, PROF, SP, MD("0"), SP, COUNT(d), SP, MD("3"), NL>>

BodyLines ==
    {LEntry, LInstr, LRet, LCall(NameA), LCall(NameB), LCall(NameBb),
     LCallArg(NameB, NameA), LCallArg(NameA, NameB), LPCall(NameA),
     LBrI1, LBrLabel, LLoop, LComment, LProf("3"), LProf("7")}

\* define [internal] @name {\n <lines> }
FunctionText(name, lines, internal) ==
    <<DEFKW, SP>> \o (IF internal THEN <<INTERNAL, SP>> ELSE <<>>)
    \o <<Sym(name), SP, LB, NL>> \o Flatten(lines) \o <<RB>>

\* function texts separated by a blank line; tail follows the last brace
RECURSIVE JoinFunctions(_)
JoinFunctions(fs) ==
    IF Len(fs) = 1 THEN Head(fs)
    ELSE Head(fs) \o <<NL, NL>> \o JoinFunctions(Tail(fs))

ModuleText(fs, tail) == JoinFunctions(fs) \o tail

Tails == {<<>>, <<NL>>}

\* modules of one function named B with any body of at most MaxLines lines
SingleModules ==
    {ModuleText(<<FunctionText(NameB, b, FALSE)>>, tl) :
        b \in SeqsUpTo(BodyLines, MaxLines), tl \in Tails}

\* function A of the round-trip scenario: one block, two calls to B, one
\* conditional branch
BodyA == <<LEntry, LCall(NameB), LCall(NameB), LBrI1>>

MultiBodies == {<<>>, <<LEntry, LRet>>, BodyA, <<LEntry, LCall(NameB), LRet>>,
                <<LComment>>}

InjectiveSeqs(S, k) ==
    {q \in [1..k -> S] : \A i, j \in 1..k : i # j => q[i] # q[j]}

\* modules of 2..MaxFuncs complete definitions with distinct names
MultiModules ==
    UNION {{ModuleText([i \in 1..k |->
                           FunctionText(ns[i], bs[i], ns[i] = NameBb)], tl) :
               ns \in InjectiveSeqs(Names, k), bs \in [1..k -> MultiBodies],
               tl \in Tails} : k \in 2..MaxFuncs}

Modules == SingleModules \cup MultiModules

----------------------------------------------------------------------------
(* The extractor run on one module: __init__ and extract_all_features *)

NoModule == ir_content = <<>> /\ functions = <<>> /\ rows = <<>>

NoHeight == current_func = <<>> /\ visited = {} /\ height = 0 /\ lookups = 0

NoScan == loop_header = <<>> /\ start_idx = 0 /\ end_idx = 0 /\ brace_count = 0

NoLoop ==
    /\ loop_headers = <<>> /\ loop_i = 0 /\ loop_depths = <<>>
    /\ total_instructions = 0 /\ multiple_succ_blocks = 0
    /\ callsites_in_loop = 0 /\ loop_body = <<>>

NoFile ==
    /\ module_functions = <<>> /\ empty_is_falsy = TRUE /\ features = <<>>
    /\ function_count = 0 /\ fn_i = 0

NoDir ==
    /\ variant = "fe2" /\ listing = <<>> /\ files = <<>>
    /\ all_features = <<>> /\ attempted = <<>>

Init ==
    /\ pc = "init"
    /\ raised = FALSE
    /\ result = <<>>
    /\ ir_content \in Modules
    /\ functions = <<>>
    /\ rows = <<>>
    /\ function_text = <<>>
    /\ NoHeight /\ NoScan /\ NoDir /\ NoLoop /\ NoFile

\* IRFeatureExtractor.__init__
Construct ==
    /\ pc = "init"
    /\ functions' = _split_into_functions(ir_content)
    /\ pc' = "extract"
    /\ UNCHANGED <<loopVars, fileVars,
                   raised, result, ir_content, rows,
                   function_text,
                   heightVars, scanVars, dirVars>>

\* one iteration of the for loop of extract_all_features
ExtractRow ==
    /\ pc = "extract"
    /\ Len(rows) < Len(functions)
    /\ rows' = Append(rows, FeatureRow(functions,
                                       functions[Len(rows) + 1].name,
                                       functions[Len(rows) + 1].text))
    /\ UNCHANGED <<loopVars, fileVars,
                   pc, raised, result, ir_content,
                   functions, function_text,
                   heightVars, scanVars, dirVars>>

\* return pd.DataFrame(features)
ExtractReturn ==
    /\ pc = "extract"
    /\ Len(rows) = Len(functions)
    /\ result' = rows
    /\ pc' = "done"
    /\ UNCHANGED <<loopVars, fileVars,
                   raised, moduleVars, function_text, heightVars, scanVars,
                   dirVars>>

Next == Construct \/ ExtractRow \/ ExtractReturn

Spec == Init /\ [][Next]_vars

----------------------------------------------------------------------------
(* Properties of one extractor run (specification Spec) *)

RatioKeys ==
    {"instruction_per_block", "successor_per_block", "avg_nested_loop_level",
     "instr_per_loop", "block_with_multiple_succ_per_loop"}

IntKeys ==
    {"calls_no", "is_local", "ret_count", "fmul_count", "fdiv_count",
     "fadd_count", "fsub_count", "max_loop_depth", "num_callsite_in_loop",
     "caller_height", "call_usage", "is_recursive", "entry_block_freq",
     "max_callsite_block_freq"}

RowKeys == {"function_name"} \cup RatioKeys \cup IntKeys

\* number of function definitions written in a module text
NumDefs(text) == CountIn(text, {DEFKW})

\* number of '{' minus number of '}' in text[1..i]
Depth(text, i) ==
    Cardinality({k \in 1..i : text[k] = LB}) - Cardinality({k \in 1..i : text[k] = RB})

\* every '}' closes an earlier '{' and every '{' is closed
Balanced(text) ==
    /\ Depth(text, Len(text)) = 0
    /\ \A i \in 1..Len(text) : Depth(text, i) >= 0

\* text is one whole definition: from its marker to the balancing brace
IsOneDefinition(text) ==
    /\ text # <<>>
    /\ text[1] = DEFKW
    /\ text[Len(text)] = RB
    /\ NumDefs(text) = 1
    /\ Balanced(text)

\* the symbols called by the call instructions of a text: for each 'call'
\* opcode, the first symbol that follows it on its line
CalledSymbols(text) ==
    {SymName(text[Min(SymsOnLine(text, i))]) :
        i \in {k \in 1..Len(text) : text[k] = CALL /\ SymsOnLine(text, k) # {}}}

\* some call instruction of text references exactly the symbol name
ReferencedByCall(text, name) ==
    \E i \in 1..Len(text) :
        /\ text[i] = CALL
        /\ \E m \in SymsOnLine(text, i) : SymName(text[m]) = name

HasProfiling(text) == \E i \in 1..Len(text) : text[i] = PROF

HasLoopAnchor(text) == \E i \in 1..Len(text) : IsLoopTok(text[i])

\* the module of the round-trip scenario: A calls B twice, B calls itself
ModuleAB(tl) ==
    ModuleText(<<FunctionText(NameA, BodyA, FALSE),
                 FunctionText(NameB, <<LEntry, LCall(NameB), LRet>>, FALSE)>>, tl)

(* C2: for the module holding A (one block, one conditional branch, two    *)
(* calls to B) and B (one call to itself), extract_all_features yields one *)
(* row for A and one for B, with A.call_usage = 2, A.is_recursive = 0,     *)
(* B.is_recursive = 1 and B.caller_height = 1.                             *)
C2_RoundTripAB ==
    (pc = "done" /\ \E tl \in Tails : ir_content = ModuleAB(tl)) =>
        /\ Len(result) = 2
        /\ \E a, b \in 1..Len(result) :
              /\ result[a].function_name = NameA
              /\ result[a].call_usage = 2
              /\ result[a].is_recursive = 0
              /\ result[b].function_name = NameB
              /\ result[b].is_recursive = 1
              /\ result[b].caller_height = 1

(* C3: for a module text made of n >= 1 complete definitions with distinct *)
(* names, _split_into_functions returns exactly n entries, each running    *)
(* from its own definition marker to its balancing brace.                  *)
C3_SplitGivesEveryFunction ==
    (pc # "init" /\ NumDefs(ir_content) >= 1) =>
        /\ Len(functions) = NumDefs(ir_content)
        /\ \A i \in 1..Len(functions) : IsOneDefinition(functions[i].text)

(* C4: every row of extract_all_features has the same fixed set of keys    *)
(* and every feature value is a number >= 0.                               *)
C4_RowsCompleteAndNonNegative ==
    \A i \in 1..Len(rows) :
        /\ DOMAIN rows[i] = RowKeys
        /\ \A k \in RatioKeys : rows[i][k].num >= 0 /\ rows[i][k].den > 0
        /\ \A k \in IntKeys : rows[i][k] \in Nat

C4_Witness ==
    /\ pc = "done"
    /\ \E i \in 1..Len(rows) :
          /\ rows[i].max_loop_depth >= 1
          /\ rows[i].instr_per_loop.num >= 1
          /\ rows[i].call_usage >= 1

(* C7: is_recursive is 1 if and only if the function's text contains a     *)
(* call instruction whose called symbol is the function's own name.        *)
C7_RecursiveIffCallsItself ==
    \A i \in 1..Len(rows) :
        rows[i].is_recursive = 1
            <=> rows[i].function_name \in CalledSymbols(functions[i].text)

(* C8: missing data yields zero and no row is dropped: no basic block      *)
(* gives per-block averages 0, no loop anchor gives five loop features 0,  *)
(* no profiling annotation in the module gives both frequencies 0, and a   *)
(* function no call instruction of the module references has              *)
(* caller_height 0.                                                        *)
C8_MissingDataYieldsZero ==
    pc = "done" =>
        /\ Len(rows) = Len(functions)
        /\ \A i \in 1..Len(rows) :
              LET text == functions[i].text
                  r == rows[i]
              IN  /\ _get_basic_blocks(text) = <<>> =>
                        r.instruction_per_block = Zero /\ r.successor_per_block = Zero
                  /\ ~HasLoopAnchor(text) =>
                        /\ r.avg_nested_loop_level = Zero
                        /\ r.instr_per_loop = Zero
                        /\ r.block_with_multiple_succ_per_loop = Zero
                        /\ r.max_loop_depth = 0
                        /\ r.num_callsite_in_loop = 0
                  /\ ~HasProfiling(ir_content) =>
                        r.entry_block_freq = 0 /\ r.max_callsite_block_freq = 0
                  /\ (\A j \in 1..Len(functions) :
                         ~ReferencedByCall(functions[j].text, r.function_name))
                        => r.caller_height = 0

(* C9: for a module with a single function that has exactly one loop       *)
(* anchor line and exactly one call instruction, the call lying after the  *)
(* anchor inside the function, the row has num_callsite_in_loop = 1 and    *)
(* max_loop_depth >= 1.                                                    *)
C9_OneLoopOneCall ==
    \A i \in 1..Len(rows) :
        LET text == functions[i].text
            anchors == {k \in 1..Len(text) : IsLoopTok(text[k])}
            callsAt == {k \in 1..Len(text) : text[k] = CALL}
        IN  (/\ NumDefs(ir_content) = 1
             /\ Cardinality(anchors) = 1
             /\ Cardinality(callsAt) = 1
             /\ \A a \in anchors : \A c \in callsAt : a < c)
            => rows[i].num_callsite_in_loop = 1 /\ rows[i].max_loop_depth >= 1

----------------------------------------------------------------------------
(* _calculate_caller_height as a loop, one iteration per step, on a        *)
(* function mapping given directly (any functions, any caller relation)    *)

CallBodies ==
    {<<>>} \cup {<<LCall(n)>> : n \in Names}
    \cup {<<LCall(NameA), LCall(NameB)>>, <<LCall(NameB), LCall(NameBb)>>,
          <<LCall(NameBb), LCall(NameA)>>}

\* ordered mappings of 1..MaxFuncs functions with distinct names; the key of
\* an entry is the name _get_function_name gives its text
Mappings ==
    UNION {{[i \in 1..k |->
                [name |-> ns[i], text |-> FunctionText(ns[i], bs[i], FALSE)]] :
               ns \in InjectiveSeqs(Names, k), bs \in [1..k -> CallBodies]} :
           k \in 1..MaxFuncs}

\* the model stops a traversal after this many look-ups, so that a loop that
\* would not end by itself stays finite
LookupCap == MaxFuncs + 3

InitHeight ==
    /\ pc = "height_start"
    /\ raised = FALSE
    /\ result = 0
    /\ ir_content = <<>>
    /\ functions \in Mappings
    /\ rows = <<>>
    /\ function_text \in {functions[i].text : i \in 1..Len(functions)}
    /\ NoHeight /\ NoScan /\ NoDir /\ NoLoop /\ NoFile

\* height = 0; current_func = function_text; visited = set()
HeightStart ==
    /\ pc = "height_start"
    /\ height' = 0
    /\ current_func' = function_text
    /\ visited' = {}
    /\ lookups' = 0
    /\ pc' = "height_loop"
    /\ UNCHANGED <<loopVars, fileVars,
                   raised, result, function_text, moduleVars, scanVars, dirVars>>

\* an iteration that forgets visited.add(...)
HeightIter_NoVisitedAdd ==
    /\ pc = "height_loop"
    /\ lookups < LookupCap
    /\ ~HeightBreak(functions, current_func, visited)
    /\ lookups' = lookups + 1
    /\ height' = height + 1
    /\ current_func' = _find_caller(functions, current_func)
    /\ UNCHANGED <<loopVars, fileVars,
                   pc, raised, result, function_text, moduleVars, visited,
                   scanVars, dirVars>>

\* one iteration of the while loop that goes on
HeightIter ==
    /\ pc = "height_loop"
    /\ lookups < LookupCap
    /\ ~HeightBreak(functions, current_func, visited)
    /\ lookups' = lookups + 1
    /\ height' = height + 1
    /\ visited' = visited \cup {_get_function_name(current_func)}
    /\ current_func' = _find_caller(functions, current_func)
    /\ UNCHANGED <<loopVars, fileVars,
                   pc, raised, result, function_text, moduleVars, scanVars, dirVars>>

\* the iteration that breaks out of the while loop
HeightLeave ==
    /\ pc = "height_loop"
    /\ lookups < LookupCap
    /\ HeightBreak(functions, current_func, visited)
    /\ lookups' = lookups + 1
    /\ pc' = "height_return"
    /\ UNCHANGED <<loopVars, fileVars,
                   raised, result, function_text, moduleVars, current_func,
                   visited, height, scanVars, dirVars>>

\* return height
HeightReturn ==
    /\ pc = "height_return"
    /\ result' = height
    /\ pc' = "height_done"
    /\ UNCHANGED <<loopVars, fileVars,
                   raised, function_text, moduleVars, heightVars, scanVars, dirVars>>

NextHeight == HeightStart \/ HeightIter \/ HeightLeave \/ HeightReturn

SpecHeight == InitHeight /\ [][NextHeight]_vars

(* C1: for every function mapping (any caller relation, cycles of any      *)
(* length, self-loops) and every start function,                           *)
(* _calculate_caller_height terminates and returns a height: with N        *)
(* functions, N + 1 - lookups is a natural number at the head of every     *)
(* iteration and every iteration decreases it, the cap of the model is     *)
(* never what stops the loop, and the value returned is a natural number.  *)
C1_HeightTerminates ==
    /\ [](pc = "height_loop" =>
             lookups <= Len(functions) /\ lookups < LookupCap)
    /\ [][pc = "height_loop" => lookups' = lookups + 1]_vars
    /\ [](pc = "height_done" => result \in Nat)

\* a traversal that went up two callers and was stopped by the visited set
C1_Witness ==
    /\ pc = "height_done"
    /\ result >= 2
    /\ _find_caller(functions, current_func) # <<>>

----------------------------------------------------------------------------
(* _get_loop_body as a loop, one character (token) per step                *)

ScanPieces == {<<LB>>, <<RB>>, <<XI>>, <<LOOP, NL>>, <<LOOP, SP, XI, NL>>}

ScanPrefixes == {<<>>, <<LB>>, <<LB, NL, LB>>}

\* function texts with a loop anchor line: braces before it, and any
\* MaxBraceLen pieces after it
ScanTexts ==
    {pre \o <<LOOP, NL>> \o Flatten(post) :
        pre \in ScanPrefixes, post \in SeqsUpTo(ScanPieces, MaxBraceLen)}

HeaderSet(text) == {LoopHeaders(text, 1)[i] : i \in 1..Len(LoopHeaders(text, 1))}

InitScan ==
    /\ pc = "scan_start"
    /\ raised = FALSE
    /\ result = <<>>
    /\ NoModule
    /\ function_text \in ScanTexts
    /\ loop_header \in HeaderSet(function_text)
    /\ start_idx = 0 /\ end_idx = 0 /\ brace_count = 0
    /\ NoHeight /\ NoDir /\ NoLoop /\ NoFile

\* start_idx = function_text.find(loop_header), and the two initialisations
ScanStart ==
    /\ pc = "scan_start"
    /\ start_idx' = ScanStartIdx(loop_header, function_text)
    /\ IF ScanStartIdx(loop_header, function_text) = 0
       THEN /\ result' = <<>>
            /\ pc' = "scan_done"
            /\ UNCHANGED <<end_idx, brace_count>>
       ELSE /\ brace_count' = 1
            /\ end_idx' = ScanStartIdx(loop_header, function_text)
            /\ pc' = "scan_loop"
            /\ UNCHANGED result
    /\ UNCHANGED <<loopVars, fileVars,
                   raised, function_text, moduleVars, heightVars, loop_header,
                   dirVars>>

\* one iteration of the while loop; indexing past the end of the text raises
\* IndexError, which the except clause turns into the result ""
ScanStep ==
    /\ pc = "scan_loop"
    /\ ScanGuard(function_text, brace_count, end_idx)
    /\ IF end_idx + 1 > Len(function_text)
       THEN /\ raised' = TRUE
            /\ result' = <<>>
            /\ pc' = "scan_done"
            /\ UNCHANGED <<end_idx, brace_count>>
       ELSE /\ end_idx' = end_idx + 1
            /\ brace_count' = ScanCount(function_text, brace_count, end_idx + 1)
            /\ UNCHANGED <<pc, raised, result>>
    /\ UNCHANGED <<loopVars, fileVars,
                   function_text, moduleVars, heightVars, loop_header, start_idx,
                   dirVars>>

\* return function_text[start_idx:end_idx + 1]
ScanReturn ==
    /\ pc = "scan_loop"
    /\ ~ScanGuard(function_text, brace_count, end_idx)
    /\ result' = SubSeq(function_text, start_idx, end_idx)
    /\ pc' = "scan_done"
    /\ UNCHANGED <<loopVars, fileVars,
                   raised, function_text, moduleVars, heightVars, scanVars, dirVars>>

NextScan == ScanStart \/ ScanStep \/ ScanReturn

SpecScan == InitScan /\ [][NextScan]_vars /\ WF_vars(NextScan)

\* number of '{' and of '}' in a text
Opens(text) == CountIn(text, {LB})
Closes(text) == CountIn(text, {RB})

(* C5, as the spec states it: for a perfectly brace-balanced function text *)
(* the body returned by _get_loop_body has as many '{' as '}'.             *)
C5_BodyBalanced ==
    (pc = "scan_done" /\ Balanced(function_text)) => Opens(result) = Closes(result)

(* C5, amended: for a perfectly brace-balanced function text, the body     *)
(* starts at the first occurrence of the anchor's text (the offset         *)
(* function_text.find returns); when that offset lies inside at least one  *)
(* open brace the body ends at the '}' closing that brace and has exactly  *)
(* one more '}' than '{'; the body has as many '{' as '}' only when that   *)
(* offset lies outside every brace, and then it runs to the end of the     *)
(* text.                                                                   *)
C5_BodyClosesEnclosingBrace ==
    (pc = "scan_done" /\ Balanced(function_text)) =>
        /\ result # <<>>
        /\ result[1] = LOOP
        /\ IF Depth(function_text, start_idx) >= 1
           THEN /\ Closes(result) = Opens(result) + 1
                /\ result[Len(result)] = RB
           ELSE /\ Closes(result) = Opens(result)
                /\ result = SubSeq(function_text, start_idx, Len(function_text))

\* a balanced text whose anchor sits in a brace that holds a nested pair
C5_Witness ==
    /\ pc = "scan_done"
    /\ Balanced(function_text)
    /\ Depth(function_text, start_idx) >= 1
    /\ Opens(result) >= 1

----------------------------------------------------------------------------
(* process_directory, of feature_extractor.py ("fe") and of                *)
(* feature_extractor2.py ("fe2"), one file per step                        *)

\* what a directory entry can be: a .ll file that is read and featurized
\* (into nrows functions), one that cannot be read, one whose extraction
\* raises, or an entry without the .ll suffix
EntryKinds ==
    {[ext |-> "ll", status |-> "ok", nrows |-> n] : n \in 0..MaxRows}
    \cup {[ext |-> "ll", status |-> "unreadable", nrows |-> 0],
          [ext |-> "ll", status |-> "extract_raises", nrows |-> 0],
          [ext |-> "txt", status |-> "ok", nrows |-> 0]}

\* os.listdir: entries with distinct names (their position)
Listings ==
    {[i \in 1..Len(ks) |-> [name |-> i, kind |-> ks[i]]] :
        ks \in SeqsUpTo(EntryKinds, MaxFiles)}

\* files = [f for f in os.listdir(directory_path) if f.endswith('.ll')]
LlFiles(l) == SelectSeq(l, LAMBDA e : e.kind.ext = "ll")

\* what a successfully processed file adds to all_features: the dictionary
\* of extract_file_features (fe), the frame of extract_all_features with one
\* row per function (fe2); each row carries source_file
FileFrame(v, f) ==
    IF v = "fe" THEN <<[source_file |-> f.name, row |-> 1]>>
    ELSE [j \in 1..f.kind.nrows |-> [source_file |-> f.name, row |-> j]]

\* the loop body with the except clause lost: the frame is appended anyway
AfterFile_NoExcept(v, feats, f) == Append(feats, FileFrame(v, f))

\* the try/except of the loop body: all_features after file f
AfterFile(v, feats, f) ==
    IF f.kind.status = "ok" THEN Append(feats, FileFrame(v, f)) ELSE feats

\* the final statement raises: fe2 with nothing processed successfully
DirRaises(v, feats) == v = "fe2" /\ feats = <<>>

InitDir ==
    /\ pc = "dir_start"
    /\ raised = FALSE
    /\ result = <<>>
    /\ NoModule
    /\ function_text = <<>>
    /\ NoHeight /\ NoScan /\ NoLoop /\ NoFile
    /\ variant \in {"fe", "fe2"}
    /\ listing \in Listings
    /\ files = <<>> /\ all_features = <<>> /\ attempted = <<>>

\* all_features = []; files = [...]
ListDir ==
    /\ pc = "dir_start"
    /\ files' = LlFiles(listing)
    /\ all_features' = <<>>
    /\ pc' = "dir_loop"
    /\ UNCHANGED <<loopVars, fileVars,
                   raised, result, function_text, moduleVars, heightVars,
                   scanVars, variant, listing, attempted>>

\* one iteration of: for filename in files
ProcessFile ==
    /\ pc = "dir_loop"
    /\ Len(attempted) < Len(files)
    /\ attempted' = Append(attempted, files[Len(attempted) + 1].name)
    /\ all_features' = AfterFile(variant, all_features, files[Len(attempted) + 1])
    /\ UNCHANGED <<loopVars, fileVars,
                   pc, raised, result, function_text, moduleVars, heightVars,
                   scanVars, variant, listing, files>>

\* fe: return pd.DataFrame(all_features)
\* fe2: raise if not all_features, else return pd.concat(all_features)
DirReturn ==
    /\ pc = "dir_loop"
    /\ Len(attempted) = Len(files)
    /\ IF DirRaises(variant, all_features)
       THEN raised' = TRUE /\ UNCHANGED result
       ELSE result' = Flatten(all_features) /\ UNCHANGED raised
    /\ pc' = "dir_done"
    /\ UNCHANGED <<loopVars, fileVars,
                   function_text, moduleVars, heightVars, scanVars, dirVars>>

NextDir == ListDir \/ ProcessFile \/ DirReturn

SpecDir == InitDir /\ [][NextDir]_vars

\* the names of the .ll entries, in listing order
LlNames(l) == [i \in 1..Len(LlFiles(l)) |-> LlFiles(l)[i].name]

\* the .ll entries that are read and featurized, in listing order
OkFiles(l) == SelectSeq(LlFiles(l), LAMBDA e : e.kind.status = "ok")

\* the rows of exactly the successfully processed files, in listing order
RowsOfOkFiles(v, l) ==
    Flatten([i \in 1..Len(OkFiles(l)) |-> FileFrame(v, OkFiles(l)[i])])

(* C10, as the spec states it: process_directory attempts every .ll file   *)
(* in listing order, whatever subset of them fails, and returns without    *)
(* raising the rows of exactly the successfully processed files.           *)
C10_BatchReturnsRowsOfGoodFiles ==
    pc = "dir_done" =>
        /\ attempted = LlNames(listing)
        /\ ~raised
        /\ result = RowsOfOkFiles(variant, listing)

(* C10, amended: process_directory attempts every .ll file in listing      *)
(* order, a failing file adds no row and stops nothing, and the call       *)
(* returns without raising the rows of exactly the successfully processed  *)
(* files, except that process_directory of feature_extractor2.py raises    *)
(* "No files were successfully processed" (after attempting every file)    *)
(* when no file was processed successfully.                                *)
C10_BatchReturnsOrReportsNone ==
    pc = "dir_done" =>
        /\ attempted = LlNames(listing)
        /\ IF variant = "fe2" /\ OkFiles(listing) = <<>>
           THEN raised
           ELSE ~raised /\ result = RowsOfOkFiles(variant, listing)

\* a failing file followed by a good one whose rows are returned
C10_Witness ==
    /\ pc = "dir_done"
    /\ ~raised
    /\ result # <<>>
    /\ \E i, j \in 1..Len(files) :
          /\ i < j
          /\ files[i].kind.status # "ok"
          /\ files[j].kind.status = "ok"

----------------------------------------------------------------------------
(* Claims on the traversal of _calculate_caller_height (SpecHeight)        *)

\* the names of the functions the traversal has entered above the start
ReachedAbove ==
    (visited \cup {_get_function_name(current_func)})
        \ {_get_function_name(function_text)}

(* C11: in one caller-height traversal no function is entered twice: the   *)
(* function the traversal stands on was never visited before in this       *)
(* traversal (the start function included), and the height equals the      *)
(* number of distinct functions reached above the start.                   *)
C11_NoFunctionEnteredTwice ==
    pc \in {"height_loop", "height_return", "height_done"} =>
        /\ _get_function_name(current_func) \notin visited
        /\ height = Cardinality(ReachedAbove)

(* C17: for every mapping of N functions and every start function, the     *)
(* caller_height returned is between 0 and N inclusive and the while loop  *)
(* of _calculate_caller_height performs at most N + 1 caller look-ups.     *)
C17_HeightAndLookupsBounded ==
    /\ height \in 0..Len(functions)
    /\ lookups <= Len(functions) + 1
    /\ pc = "height_done" => result \in 0..Len(functions)

\* a traversal over three functions that returns 3 after 4 look-ups
C17_Witness ==
    /\ pc = "height_done"
    /\ Len(functions) = MaxFuncs
    /\ result = Len(functions)
    /\ lookups = Len(functions) + 1

\* the entries of the mapping, in definition order, whose text holds a call
\* instruction referencing exactly the symbol name
ExactCallers(funcs, name) ==
    {i \in 1..Len(funcs) : ReferencedByCall(funcs[i].text, name)}

(* C16: _find_caller(G) returns a function F only if F's text contains a   *)
(* call instruction that references exactly G's name (not a longer symbol  *)
(* of which G's name is a prefix), F is the first such function in the     *)
(* definition order of the mapping, and G is in the callee list extracted  *)
(* for F.                                                                  *)
C16_CallerReferencesExactName ==
    pc = "height_loop" =>
        LET name == _get_function_name(current_func)
            F == _find_caller(functions, current_func)
            exact == ExactCallers(functions, name)
        IN  F # <<>> =>
                /\ exact # {}
                /\ F = functions[Min(exact)].text
                /\ InSeq(name, Calls(F))

----------------------------------------------------------------------------
(* get_loop_features as a loop, one loop header per step                   *)

MaxLoopLines == 3

\* loop: x
LLoopX == <<LOOP, SP, XI, NL>>
\* an indented closing brace, and an indented line that opens a brace
LClose == Indent \o <<RB, NL>>
LOpen == Indent \o <<XI, SP, LB, NL>>

LoopLines == {LLoop, LLoopX, LInstr, LBrI1, LComment, LCall(NameA), LClose, LOpen}

\* function texts of up to MaxLoopLines lines
LoopTexts ==
    {FunctionText(NameB, ls, FALSE) : ls \in SeqsUpTo(LoopLines, MaxLoopLines)}

InitLoop ==
    /\ pc = "loop_start"
    /\ raised = FALSE
    /\ result = <<>>
    /\ NoModule
    /\ function_text \in LoopTexts
    /\ NoHeight /\ NoScan /\ NoDir /\ NoLoop /\ NoFile

\* the dictionary of the final return statement
LoopResult ==
    [avg_nested_loop_level |-> Ratio(SumSeq(loop_depths), Len(loop_depths)),
     instr_per_loop |-> Ratio(total_instructions, Len(loop_headers)),
     block_with_multiple_succ_per_loop |->
         Ratio(multiple_succ_blocks, Len(loop_headers)),
     max_loop_depth |->
         Max({loop_depths[i] : i \in 1..Len(loop_depths)}),
     num_callsite_in_loop |-> callsites_in_loop]

\* loop_headers = re.findall(...), the early return, the initialisations
LoopFind ==
    /\ pc = "loop_start"
    /\ loop_headers' = LoopHeaders(function_text, 1)
    /\ IF loop_headers' = <<>>
       THEN result' = NoLoopFeatures /\ pc' = "loop_done"
       ELSE UNCHANGED result /\ pc' = "loop_for"
    /\ loop_depths' = <<>>
    /\ total_instructions' = 0
    /\ multiple_succ_blocks' = 0
    /\ callsites_in_loop' = 0
    /\ UNCHANGED <<raised, function_text, moduleVars, heightVars, scanVars,
                   dirVars, loop_i, loop_body, fileVars>>

\* one iteration of 'for loop in loop_headers', the call of _get_loop_body
\* included
LoopIter ==
    /\ pc = "loop_for"
    /\ loop_i < Len(loop_headers)
    /\ LET loop == loop_headers[loop_i + 1]
           body == _get_loop_body(loop, function_text)
       IN  /\ loop_depths' = Append(loop_depths, LoopDepth(loop))
           /\ loop_header' = loop
           /\ start_idx' = ScanStartIdx(loop, function_text)
           /\ end_idx' = ScanEnd(function_text, 1, start_idx')
           /\ brace_count' = ScanFinalCount(function_text, 1, start_idx')
           /\ loop_body' = body
           /\ total_instructions' = total_instructions + CountInstr(body, 1)
           /\ multiple_succ_blocks' =
                  multiple_succ_blocks + CountBr(body, {"i1"})
           /\ callsites_in_loop' = callsites_in_loop + CallsitesIn(body)
    /\ loop_i' = loop_i + 1
    /\ UNCHANGED <<pc, raised, result, function_text, moduleVars, heightVars,
                   dirVars, loop_headers, fileVars>>

\* the return statement after the for loop
LoopReturn ==
    /\ pc = "loop_for"
    /\ loop_i = Len(loop_headers)
    /\ result' = LoopResult
    /\ pc' = "loop_done"
    /\ UNCHANGED <<raised, function_text, moduleVars, heightVars, scanVars,
                   dirVars, loopVars, fileVars>>

NextLoop == LoopFind \/ LoopIter \/ LoopReturn

SpecLoop == InitLoop /\ [][NextLoop]_vars

\* the stepwise loop computes what the operator get_loop_features computes
LoopAgrees == pc = "loop_done" => result = get_loop_features(function_text)

\* the loop bodies get_loop_features recovers, one per loop header
RecoveredBodies ==
    [i \in 1..Len(loop_headers) |-> _get_loop_body(loop_headers[i], function_text)]

\* the recovered bodies that hold at least one conditional branch
BodiesWithCondBranch ==
    {i \in 1..Len(loop_headers) : CountBr(RecoveredBodies[i], {"i1"}) >= 1}

(* C13: for a function with at least one loop anchor,                      *)
(* block_with_multiple_succ_per_loop equals the number of recovered loop   *)
(* bodies that contain at least one conditional branch, an integer between *)
(* 0 and the number of loop anchors.                                       *)
C13_CountsBodiesWithCondBranch ==
    (pc = "loop_done" /\ loop_headers # <<>>) =>
        LET v == result.block_with_multiple_succ_per_loop
        IN  /\ v.num = Cardinality(BodiesWithCondBranch) * v.den
            /\ v.num <= Len(loop_headers) * v.den

(* C15: for every loop anchor found in a function, also when two anchor    *)
(* lines have the same text, the body recovered for the anchor starts at   *)
(* the anchor's own offset in the function text, so the bodies of two      *)
(* anchors never start at the same offset.                                 *)
C15_BodyStartsAtOwnAnchor ==
    (pc = "loop_for" /\ loop_i >= 1) =>
        /\ start_idx = LoopOffsets(function_text, 1)[loop_i]
        /\ \A k \in 1..(loop_i - 1) :
              ScanStartIdx(loop_headers[k], function_text) # start_idx

----------------------------------------------------------------------------
(* Claim on the instruction counts of the rows (Spec)                      *)

\* index of the first token at or after i that is not a blank
FirstNonBlank(t, i) ==
    LET ms == {m \in i..Len(t) : t[m] # SP}
    IN  IF ms = {} THEN Len(t) + 1 ELSE Min(ms)

\* the lines of t that begin with indentation and whose first character
\* after it is neither ';' nor '}'
InstrLines(t) ==
    {i \in 2..Len(t) :
        /\ t[i - 1] = NL
        /\ t[i] = SP
        /\ FirstNonBlank(t, i) <= Len(t)
        /\ t[FirstNonBlank(t, i)] # NL
        /\ FirstAtom(t[FirstNonBlank(t, i)]) \notin {";", "}"}}

\* the text of each basic block as it stands in the function text, from the
\* end of its label to the next label
BlockRegions(text) ==
    SelectSeq(Tail(SplitLabels(text)), LAMBDA b : Strip(b) # <<>>)

(* C14: the instruction count used for a basic block and for a loop body   *)
(* is the number of its lines that begin with indentation and whose first  *)
(* non-blank character is neither ';' nor '}': every such line counts      *)
(* once, the first instruction line of a block included, and no indented   *)
(* comment line or closing-brace line counts.                              *)
C14_CountsInstructionLines ==
    \A i \in 1..Len(rows) :
        LET text == functions[i].text
            regions == BlockRegions(text)
            hs == LoopHeaders(text, 1)
        IN  /\ regions # <<>> =>
                  rows[i].instruction_per_block =
                      Ratio(SumSeq([k \in 1..Len(regions) |->
                                       Cardinality(InstrLines(regions[k]))]),
                            Len(regions))
            /\ hs # <<>> =>
                  rows[i].instr_per_loop =
                      Ratio(SumSeq([k \in 1..Len(hs) |->
                               Cardinality(InstrLines(_get_loop_body(hs[k], text)))]),
                            Len(hs))

----------------------------------------------------------------------------
(* feature_extractor.py: extract_file_features over the functions of an    *)
(* llvmlite module. A function is [name, blocks], a block a sequence of    *)
(* instructions, an instruction [opcode, str] with str(instr) as atoms.    *)

MaxFileFuncs == 3

I_add == [opcode |-> "add", str |-> <<"add">>]
I_ret == [opcode |-> "ret", str |-> <<"ret">>]
I_load == [opcode |-> "load", str |-> <<"load">>]
I_fadd == [opcode |-> "fadd", str |-> <<"fadd">>]
I_br == [opcode |-> "br", str |-> <<"br", " ", "label">>]
I_bri1 == [opcode |-> "br", str |-> <<"br", " ", "i1">>]
\* br i1 ..., !llvm.loop !0
I_brloop ==
    [opcode |-> "br", str |-> <<"br", " ", "i1", " ", "!", "llvm", ".", "loop">>]
\* call void @f()
I_call == [opcode |-> "call", str |-> <<"call", " ", "@", "f", "(", ")">>]

\* the block lists of the functions of the modules: a declaration has none
FileShapes ==
    {<<>>,
     <<<<I_add, I_ret>>>>,
     <<<<I_call, I_bri1>>, <<I_ret>>>>,
     <<<<I_brloop>>, <<I_load, I_fadd, I_br>>>>,
     <<<<I_add, I_call, I_brloop>>>>}

FileNames == <<"f", "g", "h", "k">>

FileModules ==
    {[i \in 1..Len(bs) |-> [name |-> FileNames[i], blocks |-> bs[i]]] :
        bs \in SeqsUpTo(FileShapes, MaxFileFuncs)}

\* exact sum and quotient of Python's float quotients
RatAdd(a, b) == [num |-> a.num * b.den + b.num * a.den, den |-> a.den * b.den]
RatDiv(a, n) == [num |-> a.num, den |-> a.den * n]

\* all the instructions of a function, block after block
AllInstrs(function) == Flatten(function.blocks)

\* 'sub' in str(instr)
InStr(sub, instr) == \E i \in 1..Len(instr.str) : instr.str[i] = sub

CountOp(function, ops) ==
    Cardinality({i \in 1..Len(AllInstrs(function)) :
                    AllInstrs(function)[i].opcode \in ops})

get_instruction_per_block_llvm(function) ==
    IF Len(function.blocks) > 0
    THEN Ratio(Len(AllInstrs(function)), Len(function.blocks))
    ELSE Zero

get_successor_per_block_llvm(function) ==
    LET is == AllInstrs(function)
        succ == [i \in 1..Len(is) |->
                    IF is[i].opcode = "br"
                    THEN (IF InStr("i1", is[i]) THEN 2 ELSE 1)
                    ELSE 0]
    IN  IF Len(function.blocks) > 0
        THEN Ratio(SumSeq(succ), Len(function.blocks))
        ELSE Zero

\* what one block adds to (nested_level, instr_in_loops, multi_succ_blocks,
\* callsites_in_loop) in get_loop_info
LoopInfoOfBlock(block) ==
    LET hits == {i \in 1..Len(block) : InStr("loop", block[i])}
    IN  [nested |-> Cardinality(hits),
         instrs |-> Cardinality(hits) * Len(block),
         multi |-> Cardinality({i \in hits :
                      block[i].opcode = "br" /\ InStr("i1", block[i])}),
         calls |-> Cardinality({i \in hits : block[i].opcode = "call"})]

get_loop_info(function) ==
    LET per == [b \in 1..Len(function.blocks) |->
                   LoopInfoOfBlock(function.blocks[b])]
        nested_level == SumSeq([b \in 1..Len(per) |-> per[b].nested])
    IN  [AvgNestedLoopLevel |-> nested_level,
         InstrPerLoop |-> SumSeq([b \in 1..Len(per) |-> per[b].instrs]),
         BlockWithMultipleSuccecorsPerLoop |->
             SumSeq([b \in 1..Len(per) |-> per[b].multi]),
         MaxLoopDepth |-> nested_level,
         NumCallsiteInLoop |-> SumSeq([b \in 1..Len(per) |-> per[b].calls])]

\* str(instr).split('@')[-1].split()[0]: what follows the last '@', up to
\* the first blank
called_func(instr) ==
    LET t == instr.str
        ats == {i \in 1..Len(t) : t[i] = "@"}
        from == IF ats = {} THEN 1 ELSE Max(ats) + 1
        blanks == {i \in from..Len(t) : t[i] = " "}
    IN  SubSeq(t, from, IF blanks = {} THEN Len(t) ELSE Min(blanks) - 1)

get_call_info(function) ==
    LET is == AllInstrs(function)
        calls == {i \in 1..Len(is) : is[i].opcode = "call"}
    IN  [CallsNo |-> Cardinality(calls),
         IsRecursive |->
             IF \E i \in calls : called_func(is[i]) = <<function.name>>
             THEN 1 ELSE 0,
         CallUsage |-> Cardinality(calls)]

get_memory_operations(function) ==
    [load_count |-> CountOp(function, {"load"}),
     store_count |-> CountOp(function, {"store"}),
     alloca_count |-> CountOp(function, {"alloca"})]

get_branch_info(function) ==
    LET is == AllInstrs(function)
        brs == {i \in 1..Len(is) : is[i].opcode = "br"}
    IN  [conditional_branch_count |->
             Cardinality({i \in brs : InStr("i1", is[i])}),
         unconditional_branch_count |->
             Cardinality({i \in brs : ~InStr("i1", is[i])})]

count_floating_point_ops(function) ==
    [NoOfFadd |-> CountOp(function, {"fadd"}),
     NoOfFsub |-> CountOp(function, {"fsub"}),
     NoOfFmul |-> CountOp(function, {"fmul"}),
     NoOfFdiv |-> CountOp(function, {"fdiv"})]

\* the keys extract_file_features divides by function_count
AveragedKeys == {"InstructionPerBlock", "SuccessorPerBlock", "AvgNestedLoopLevel"}

\* the keys no function adds anything to
UntouchedKeys ==
    {"IsLocal", "MaxDomTreeLevel", "CallerHeight", "EntryBlockFreq",
     "MaxCallsiteBlockFreq", "NoOfRet"}

\* what one function adds to the integer-valued keys
IntContribution(function) ==
    [k \in {"InstrPerLoop", "BlockWithMultipleSuccecorsPerLoop",
            "MaxLoopDepth", "NumCallsiteInLoop"} |-> get_loop_info(function)[k]]
    @@ get_call_info(function)
    @@ get_memory_operations(function)
    @@ get_branch_info(function)
    @@ count_floating_point_ops(function)

\* what one function adds to the keys that are averaged
RatContribution(function) ==
    [InstructionPerBlock |-> get_instruction_per_block_llvm(function),
     SuccessorPerBlock |-> get_successor_per_block_llvm(function),
     AvgNestedLoopLevel |-> Ratio(get_loop_info(function).AvgNestedLoopLevel, 1)]

\* the initial features dictionary: every key 0
InitialFeatures ==
    [k \in AveragedKeys |-> Zero]
    @@ [k \in UntouchedKeys \cup DOMAIN IntContribution([name |-> "f", blocks |-> <<>>])
           |-> 0]

\* features after the body of the for loop has run for function
AddFunction(fs, function) ==
    [k \in DOMAIN fs |->
        IF k \in AveragedKeys THEN RatAdd(fs[k], RatContribution(function)[k])
        ELSE IF k \in UntouchedKeys THEN fs[k]
        ELSE fs[k] + IntContribution(function)[k]]

\* 'if not function.blocks': llvmlite hands out an iterator object for
\* function.blocks; empty_is_falsy says whether that object tests false for
\* a function without blocks
NotBlocks(function) == empty_is_falsy /\ Len(function.blocks) = 0

\* features[key] /= function_count for the three keys, when function_count > 0
Averaged(fs, count) ==
    IF count > 0
    THEN [k \in DOMAIN fs |->
             IF k \in AveragedKeys THEN RatDiv(fs[k], count) ELSE fs[k]]
    ELSE fs

InitFile ==
    /\ pc = "file_start"
    /\ raised = FALSE
    /\ result = <<>>
    /\ NoModule
    /\ function_text = <<>>
    /\ NoHeight /\ NoScan /\ NoDir /\ NoLoop
    /\ module_functions \in FileModules
    /\ empty_is_falsy \in BOOLEAN
    /\ features = <<>> /\ function_count = 0 /\ fn_i = 0

\* features = {...}; function_count = 0
FileStart ==
    /\ pc = "file_start"
    /\ features' = InitialFeatures
    /\ function_count' = 0
    /\ fn_i' = 0
    /\ pc' = "file_for"
    /\ UNCHANGED <<raised, result, function_text, moduleVars, heightVars,
                   scanVars, dirVars, loopVars, module_functions, empty_is_falsy>>

\* one iteration of 'for function in self.module.functions'
FileFunction ==
    /\ pc = "file_for"
    /\ fn_i < Len(module_functions)
    /\ LET function == module_functions[fn_i + 1]
       IN  IF NotBlocks(function)
           THEN UNCHANGED <<features, function_count>>
           ELSE /\ function_count' = function_count + 1
                /\ features' = AddFunction(features, function)
    /\ fn_i' = fn_i + 1
    /\ UNCHANGED <<pc, raised, result, function_text, moduleVars, heightVars,
                   scanVars, dirVars, loopVars, module_functions, empty_is_falsy>>

\* the averages and the return statement
FileReturn ==
    /\ pc = "file_for"
    /\ fn_i = Len(module_functions)
    /\ features' = Averaged(features, function_count)
    /\ result' = features'
    /\ pc' = "file_done"
    /\ UNCHANGED <<raised, function_text, moduleVars, heightVars, scanVars,
                   dirVars, loopVars, module_functions, empty_is_falsy,
                   function_count, fn_i>>

NextFile == FileStart \/ FileFunction \/ FileReturn

SpecFile == InitFile /\ [][NextFile]_vars

\* the functions of the module that have at least one block
DefinedFunctions == SelectSeq(module_functions, LAMBDA f : Len(f.blocks) > 0)

RECURSIVE RatSum(_)
RatSum(qs) == IF qs = <<>> THEN Zero ELSE RatAdd(Head(qs), RatSum(Tail(qs)))

\* q is the mean of the quotients qs (qs not empty)
IsMeanOf(q, qs) ==
    q.num * RatSum(qs).den * Len(qs) = RatSum(qs).num * q.den

\* the value of the file-level row for key k is the mean, over the functions
\* with at least one block, of what each of them gives for k
FileKeyIsMean(k) ==
    LET fs == DefinedFunctions
    IN  IF k \in AveragedKeys
        THEN (IF fs = <<>> THEN result[k].num = 0
              ELSE IsMeanOf(result[k],
                            [i \in 1..Len(fs) |-> RatContribution(fs[i])[k]]))
        ELSE (IF fs = <<>> THEN result[k] = 0
              ELSE IsMeanOf(Ratio(result[k], 1),
                            [i \in 1..Len(fs) |->
                                Ratio(IntContribution(fs[i])[k], 1)]))

(* C12: in file-aggregate mode (extract_file_features) functions with zero *)
(* blocks are excluded and cause no error, also when every function has    *)
(* zero blocks, and each per-function metric of the file-level row equals  *)
(* the mean of that metric over the functions that have at least one       *)
(* block.                                                                  *)
C12_FileRowIsMeanOverDefined ==
    pc = "file_done" =>
        /\ ~raised
        /\ \A k \in DOMAIN result \ UntouchedKeys : FileKeyIsMean(k)

====
